---------------------------- MODULE Spec2Model ----------------------------
(***************************************************************************)
(* PMSPlanner: the frequency parser (utils.py), the major-machinery filter *)
(* and the machinery breakdown (data_processor.py), the vessel KPI table   *)
(* and the application session (app.py).                                   *)
(*                                                                         *)
(* A text is a sequence of one-character strings.  A missing value (NaN /  *)
(* None) of a text column is NaN, of a date column NaT, of a parse result  *)
(* None.  parse_to_months answers in TENTHS of a month (the code rounds to *)
(* one decimal), so 30 months is 300.                                      *)
(***************************************************************************)
EXTENDS Integers, Sequences, FiniteSets, TLC

VARIABLES
    df,        \* DataProcessor.df: NoFrame before load, else the loaded rows
    out,       \* outcome of the last filter_major_machinery call
    ptext,     \* FrequencyParser harness: the text given to the parser
    pcalled,   \* which parser functions the harness has called on ptext
    phours,    \* result of parse_to_hours(ptext), once called
    pmonths,   \* result of parse_to_months(ptext), once called
    pcat,      \* result of get_frequency_category(ptext), once called
    kin,       \* the frame given to display_vessel_kpis_summary
    ktab,      \* the pivot table it builds, or its early-return marker
    btab,      \* the table get_machinery_breakdown returns, once called
    procs      \* st.session_state.data_processors: name and store, in order

vars == <<df, out, ptext, pcalled, phours, pmonths, pcat, kin, ktab, btab,
          procs>>

-----------------------------------------------------------------------------
(* Bounds of the model *)

MaxSpaces == 1      \* spaces between a number and its unit in parser inputs
MaxRows   == 2      \* rows of the uploaded CSV files built from BatchRows
MaxRecs   == 2      \* rows of a frame handed to the KPI table

-----------------------------------------------------------------------------
(* Values *)

NaN   == <<"nan">>          \* missing text: no character is "nan"
None  == -1                 \* absent parse result (results are >= 0)

Digits == <<"0", "1", "2", "3", "4", "5", "6", "7", "8", "9">>
Upper  == <<"A","B","C","D","E","F","G","H","I","J","K","L","M",
            "N","O","P","Q","R","S","T","U","V","W","X","Y","Z">>
LowerAlpha == <<"a","b","c","d","e","f","g","h","i","j","k","l","m",
                "n","o","p","q","r","s","t","u","v","w","x","y","z">>

IsDigit(c) == \E i \in 1..10 : Digits[i] = c
DigitVal(c) == (CHOOSE i \in 1..10 : Digits[i] = c) - 1
IsSpace(c) == c = " "
IsUpper(c) == \E i \in 1..26 : Upper[i] = c
LowerChar(c) == IF IsUpper(c) THEN LowerAlpha[CHOOSE i \in 1..26 : Upper[i] = c]
                ELSE c
\* str.lower()
Lower(t) == [i \in 1..Len(t) |-> LowerChar(t[i])]

\* pd.isna(x)
IsNa(t) == t = NaN

\* str.strip()
RECURSIVE LStrip(_)
LStrip(t) == IF t # <<>> /\ IsSpace(Head(t)) THEN LStrip(Tail(t)) ELSE t
RECURSIVE RStrip(_)
RStrip(t) == IF t # <<>> /\ IsSpace(t[Len(t)])
             THEN RStrip(SubSeq(t, 1, Len(t) - 1)) ELSE t
Strip(t) == RStrip(LStrip(t))

\* needle in haystack
Contains(t, w) ==
    \E i \in 1..(Len(t) - Len(w) + 1) : SubSeq(t, i, i + Len(w) - 1) = w

\* int(s) of a run of decimal digits
RECURSIVE IntOf(_)
IntOf(ds) == IF ds = <<>> THEN 0
             ELSE 10 * IntOf(SubSeq(ds, 1, Len(ds) - 1)) + DigitVal(ds[Len(ds)])

-----------------------------------------------------------------------------
(* The unit patterns  (\d+)\s*<unit>s?  compiled with re.IGNORECASE *)

hour_pattern  == <<"h","o","u","r">>
month_pattern == <<"m","o","n","t","h">>
year_pattern  == <<"y","e","a","r">>
day_pattern   == <<"d","a","y">>
week_pattern  == <<"w","e","e","k">>

\* last position of the digit run that starts at i
DigitRunEnd(t, i) ==
    CHOOSE j \in i..Len(t) :
        /\ \A x \in i..j : IsDigit(t[x])
        /\ (j = Len(t) \/ ~IsDigit(t[j + 1]))

\* first position at or after k that holds no whitespace (Len(t)+1 if none)
SkipSpaces(t, k) ==
    CHOOSE j \in k..(Len(t) + 1) :
        /\ \A x \in k..(j - 1) : IsSpace(t[x])
        /\ (j = Len(t) + 1 \/ ~IsSpace(t[j]))

\* the unit word, in any letter case, starts at position k
WordAt(t, k, w) ==
    /\ k + Len(w) - 1 <= Len(t)
    /\ Lower(SubSeq(t, k, k + Len(w) - 1)) = w

\* the pattern matches with its first digit at position i; \d+ and \s* are
\* greedy and cannot give back a character the unit word could use, and the
\* optional trailing s changes neither the match nor group(1)
MatchAt(t, i, w) ==
    /\ IsDigit(t[i])
    /\ WordAt(t, SkipSpaces(t, DigitRunEnd(t, i) + 1), w)

\* pattern.search(t): position of the leftmost match, 0 when there is none
Search(t, w) ==
    IF \E i \in 1..Len(t) : MatchAt(t, i, w)
    THEN CHOOSE i \in 1..Len(t) :
            MatchAt(t, i, w) /\ \A j \in 1..(i - 1) : ~MatchAt(t, j, w)
    ELSE 0

\* mutant: the group is (\d), one digit, instead of (\d+)
Group1_OneDigit(t, i) == DigitVal(t[DigitRunEnd(t, i)])

\* int(match.group(1))
Group1(t, i) == IntOf(SubSeq(t, i, DigitRunEnd(t, i)))

\* round(a / b, 1) * 10 for a, b > 0 given as the quotient (10 * a) / b:
\* nearest integer.  On an exact decimal tie (hours = 36 mod 72) Python
\* rounds by the binary value of the quotient; the tie branch below goes to
\* the even neighbour, and no number of the inputs (Nums) is such a tie.
RoundDiv(a, b) ==
    LET q == a \div b
        r == a % b
    IN  IF 2 * r < b THEN q
        ELSE IF 2 * r > b THEN q + 1
        ELSE IF q % 2 = 0 THEN q ELSE q + 1

-----------------------------------------------------------------------------
(* FrequencyParser *)

\* mutant: a text no pattern matches yields the default 0 instead of None
parse_to_hours_default(frequency_str) ==
    IF IsNa(frequency_str) \/ frequency_str = <<>> THEN None
    ELSE LET s == Strip(frequency_str)
             h == Search(s, hour_pattern)
             m == Search(s, month_pattern)
             y == Search(s, year_pattern)
             d == Search(s, day_pattern)
             w == Search(s, week_pattern)
         IN  IF h # 0 THEN Group1(s, h)
             ELSE IF m # 0 THEN Group1(s, m) * 30 * 24
             ELSE IF y # 0 THEN Group1(s, y) * 365 * 24
             ELSE IF d # 0 THEN Group1(s, d) * 24
             ELSE IF w # 0 THEN Group1(s, w) * 7 * 24
             ELSE 0

parse_to_hours(frequency_str) ==
    IF IsNa(frequency_str) \/ frequency_str = <<>> THEN None
    ELSE LET s == Strip(frequency_str)
             h == Search(s, hour_pattern)
             m == Search(s, month_pattern)
             y == Search(s, year_pattern)
             d == Search(s, day_pattern)
             w == Search(s, week_pattern)
         IN  IF h # 0 THEN Group1(s, h)
             ELSE IF m # 0 THEN Group1(s, m) * 30 * 24
             ELSE IF y # 0 THEN Group1(s, y) * 365 * 24
             ELSE IF d # 0 THEN Group1(s, d) * 24
             ELSE IF w # 0 THEN Group1(s, w) * 7 * 24
             ELSE None

\* mutant: the hour pattern is tried first, as in parse_to_hours
parse_to_months_hours_first(frequency_str) ==
    IF IsNa(frequency_str) \/ frequency_str = <<>> THEN None
    ELSE LET s == Strip(frequency_str)
             h == Search(s, hour_pattern)
             m == Search(s, month_pattern)
             y == Search(s, year_pattern)
             d == Search(s, day_pattern)
             w == Search(s, week_pattern)
         IN  IF h # 0 THEN RoundDiv(Group1(s, h) * 10, 720)
             ELSE IF m # 0 THEN Group1(s, m) * 10
             ELSE IF y # 0 THEN Group1(s, y) * 12 * 10
             ELSE IF d # 0 THEN RoundDiv(Group1(s, d) * 10, 30)
             ELSE IF w # 0 THEN RoundDiv(Group1(s, w) * 1000, 433)
             ELSE None

\* mutant: strict same-unit mode, an hour text is not converted
parse_to_months_strict(frequency_str) ==
    IF IsNa(frequency_str) \/ frequency_str = <<>> THEN None
    ELSE LET s == Strip(frequency_str)
             m == Search(s, month_pattern)
             y == Search(s, year_pattern)
         IN  IF m # 0 THEN Group1(s, m) * 10
             ELSE IF y # 0 THEN Group1(s, y) * 12 * 10
             ELSE None

\* in tenths of a month
parse_to_months(frequency_str) ==
    IF IsNa(frequency_str) \/ frequency_str = <<>> THEN None
    ELSE LET s == Strip(frequency_str)
             h == Search(s, hour_pattern)
             m == Search(s, month_pattern)
             y == Search(s, year_pattern)
             d == Search(s, day_pattern)
             w == Search(s, week_pattern)
         IN  IF m # 0 THEN Group1(s, m) * 10
             ELSE IF y # 0 THEN Group1(s, y) * 12 * 10
             ELSE IF h # 0 THEN RoundDiv(Group1(s, h) * 10, 720)
             ELSE IF d # 0 THEN RoundDiv(Group1(s, d) * 10, 30)
             ELSE IF w # 0 THEN RoundDiv(Group1(s, w) * 1000, 433)
             ELSE None

-----------------------------------------------------------------------------
(* Texts the parser and the filter are run on *)

\* str(n)
RECURSIVE StrOfInt(_)
StrOfInt(n) == IF n < 10 THEN <<Digits[n + 1]>>
               ELSE StrOfInt(n \div 10) \o <<Digits[(n % 10) + 1]>>

Spaces(k) == [i \in 1..k |-> " "]

Nums == {0, 1, 2, 29, 30, 31, 3999, 4000, 4001, 8000}

HourWords  == { <<"h","o","u","r">>, <<"h","o","u","r","s">>,
                <<"H","O","U","R","S">>, <<"H","o","u","r","s">> }
MonthWords == { <<"m","o","n","t","h">>, <<"m","o","n","t","h","s">>,
                <<"M","O","N","T","H","S">>, <<"M","o","n","t","h">> }
OtherWords == { <<"y","e","a","r">>, <<"y","e","a","r","s">>,
                <<"d","a","y","s">>, <<"w","e","e","k","s">>, <<"W","e","e","k">> }
\* spellings no pattern knows
UnknownWords == { <<"h","r","s">>, <<"m","i","n","u","t","e","s">>, <<>> }

\* "<n><k spaces><word>"
Interval(n, k, w) == StrOfInt(n) \o Spaces(k) \o w

PlainTexts ==
    { Interval(n, k, w) : n \in Nums, k \in 0..MaxSpaces,
                          w \in HourWords \cup MonthWords \cup OtherWords
                                 \cup UnknownWords }

T_garbage    == <<"g","a","r","b","a","g","e">>
T_hourly     == <<"h","o","u","r","l","y">>
T_monthly    == <<"m","o","n","t","h","l","y">>
T_padded     == <<" ">> \o Interval(30, 1, <<"m","o","n","t","h","s">>) \o <<" ">>
T_blank      == <<" ", " ">>
T_decimal    == <<"4","0","0","0",".","5"," ","h","o","u","r","s">>
T_negative   == <<"-","5"," ","h","o","u","r","s">>
T_hours_months ==
    Interval(4000, 1, <<"h","o","u","r","s">>) \o <<" ","/"," ">>
        \o Interval(24, 1, <<"m","o","n","t","h","s">>)
T_months_hours ==
    Interval(24, 1, <<"m","o","n","t","h","s">>) \o <<" ","/"," ">>
        \o Interval(4000, 1, <<"h","o","u","r","s">>)
T_month_hourword ==
    Interval(6, 1, <<"m","o","n","t","h","s">>)
        \o <<","," ","c","h","e","c","k"," ","h","o","u","r"," ",
              "c","o","u","n","t","e","r">>
T_year_hourword ==
    Interval(2, 1, <<"y","e","a","r","s">>)
        \o <<","," ","h","o","u","r"," ","m","e","t","e","r">>

SpecialTexts ==
    { NaN, <<>>, T_garbage, T_hourly, T_monthly, T_padded, T_blank, T_decimal,
      T_negative, T_hours_months, T_months_hours, T_month_hourword,
      T_year_hourword }

ParserTexts == PlainTexts \cup SpecialTexts

-----------------------------------------------------------------------------
(* FrequencyParser harness: one text, each function applied to it *)

\* mutant: the month thresholds are tried before the hour thresholds
get_frequency_category_months_first(frequency_str) ==
    LET hours  == parse_to_hours(frequency_str)
        months == parse_to_months(frequency_str)
    IN  IF months # None
        THEN IF months < 60 THEN "High Frequency"
             ELSE IF months < 240 THEN "Medium Frequency"
             ELSE "Low Frequency (Major)"
        ELSE IF hours # None
        THEN IF hours < 1000 THEN "High Frequency"
             ELSE IF hours < 4000 THEN "Medium Frequency"
             ELSE "Low Frequency (Major)"
        ELSE "Unknown"

\* utils.py lines 92-113; months are in tenths, so 6 months is 60
get_frequency_category(frequency_str) ==
    LET hours  == parse_to_hours(frequency_str)
        months == parse_to_months(frequency_str)
    IN  IF hours # None
        THEN IF hours < 1000 THEN "High Frequency"
             ELSE IF hours < 4000 THEN "Medium Frequency"
             ELSE "Low Frequency (Major)"
        ELSE IF months # None
        THEN IF months < 60 THEN "High Frequency"
             ELSE IF months < 240 THEN "Medium Frequency"
             ELSE "Low Frequency (Major)"
        ELSE "Unknown"

\* hour intervals around the thresholds of the categories
CategoryNums == {999, 1000, 1999, 2000}
CategoryTexts ==
    { Interval(n, 1, <<"h","o","u","r","s">>) : n \in CategoryNums }

ParseToHours ==
    /\ "hours" \notin pcalled
    /\ phours' = parse_to_hours(ptext)
    /\ pcalled' = pcalled \cup {"hours"}
    /\ UNCHANGED <<df, out, ptext, pmonths, pcat, kin, ktab, btab, procs>>

ParseToMonths ==
    /\ "months" \notin pcalled
    /\ pmonths' = parse_to_months(ptext)
    /\ pcalled' = pcalled \cup {"months"}
    /\ UNCHANGED <<df, out, ptext, phours, pcat, kin, ktab, btab, procs>>

GetFrequencyCategory ==
    /\ "category" \notin pcalled
    /\ pcat' = get_frequency_category(ptext)
    /\ pcalled' = pcalled \cup {"category"}
    /\ UNCHANGED <<df, out, ptext, phours, pmonths, kin, ktab, btab, procs>>

-----------------------------------------------------------------------------
(* DataProcessor: the record store *)

\* a date column holds a calendar date, here its year and month, or NaT
NaT == [y |-> 0, m |-> 0]
Date(y, m) == [y |-> y, m |-> m]

CsvRow(f, d, v, l, a) ==
    [Frequency |-> f, Due |-> d, Vessel |-> v, Machinery |-> l, JobAction |-> a]

\* a CSV line of empty fields only
BlankRow == CsvRow(NaN, NaT, NaN, NaN, NaN)

TextColumns == {"Frequency", "Vessel", "Machinery", "JobAction"}

\* _clean_data on one cell of a string column: strip, then '' / 'nan' /
\* 'None' become NaN
CleanCell(t) ==
    IF IsNa(t) THEN NaN
    ELSE LET s == Strip(t)
         IN  IF s \in { <<>>, <<"n","a","n">>, <<"N","o","n","e">> }
             THEN NaN ELSE s

\* pd.read_csv: the rows of the file under the labels 0, 1, 2, ...
read_csv(file) ==
    [i \in 1..Len(file) |-> [label |-> i - 1] @@ file[i]]

AllNa(r) ==
    /\ \A c \in TextColumns : IsNa(r[c])
    /\ r.Due = NaT

\* DataProcessor._clean_data: dropna(how='all') keeps the labels of the rows
\* that stay; then every string cell is cleaned
clean_data(rows) ==
    LET kept == SelectSeq(rows, LAMBDA r : ~AllNa(r))
    IN  [i \in 1..Len(kept) |->
            [c \in DOMAIN kept[i] |->
                IF c \in TextColumns THEN CleanCell(kept[i][c]) ELSE kept[i][c]]]

\* DataProcessor.load_data
load_data(file) == [loaded |-> TRUE, rows |-> clean_data(read_csv(file))]

-----------------------------------------------------------------------------
(* DataProcessor.filter_major_machinery *)

\* Python truth value of a parse result: None and 0 are false
Truthy(x) == x # None /\ x # 0

\* mutant: the gate compares the converted Frequency_Hours / Frequency_Months
\* values without looking for the unit word in the text
GateRow_Converted(freq_str, min_hours, min_months) ==
    IF IsNa(freq_str) \/ freq_str = <<>> THEN FALSE
    ELSE LET hours  == parse_to_hours(Strip(freq_str))
             months == parse_to_months(Strip(freq_str))
         IN  \/ Truthy(hours) /\ hours >= min_hours
             \/ Truthy(months) /\ months >= 10 * min_months

\* lines 81-96: the mask entry of one row; months are compared in tenths
GateRow(freq_str, min_hours, min_months) ==
    IF IsNa(freq_str) \/ freq_str = <<>> THEN FALSE
    ELSE LET s == Strip(freq_str)
         IN  IF Contains(Lower(s), hour_pattern)
             THEN LET hours == parse_to_hours(s)
                  IN  Truthy(hours) /\ hours >= min_hours
             ELSE IF Contains(Lower(s), month_pattern)
             THEN LET months == parse_to_months(s)
                  IN  Truthy(months) /\ months >= 10 * min_months
             ELSE FALSE

\* frame[mask] with a boolean Series: the mask, labelled 0..len-1, is looked
\* up by the labels of the frame; a label the mask does not have is an
\* IndexingError
MaskAligns(rows, mask) ==
    \A i \in 1..Len(rows) : rows[i].label \in 0..(Len(mask) - 1)
BoolIndex(rows, mask) ==
    SelectSeq(rows, LAMBDA r : mask[r.label + 1])

\* the optional arguments
NoFilter == [kind |-> "none"]
ListFilter(S) == [kind |-> "list", items |-> S]
StrFilter(t)  == [kind |-> "str", s |-> t]

\* if x:  (None, '' and [] are false)
FilterGiven(x) ==
    \/ x.kind = "list" /\ x.items # {}
    \/ x.kind = "str" /\ x.s # <<>>

T_AllYears     == <<"A","l","l"," ","Y","e","a","r","s">>
T_AllLocations == <<"A","l","l"," ","L","o","c","a","t","i","o","n","s">>

\* int(year_filter) succeeds: digits, possibly inside whitespace
IsIntText(t) ==
    /\ Strip(t) # <<>>
    /\ \A i \in 1..Len(Strip(t)) : IsDigit(Strip(t)[i])

\* mutant: a year that int() rejects matches no due date
ApplyYear_Strict(rows, year_filter) ==
    IF FilterGiven(year_filter) /\ year_filter.s # T_AllYears
    THEN IF IsIntText(year_filter.s)
         THEN SelectSeq([i \in 1..Len(rows) |->
                            rows[i] @@ [Due_Year |-> rows[i].Due.y]],
                  LAMBDA r : r.Due_Year = IntOf(Strip(year_filter.s))
                                \/ r.Due = NaT)
         ELSE SelectSeq(rows, LAMBDA r : r.Due = NaT)
    ELSE rows

\* lines 100-109
ApplyYear(rows, year_filter) ==
    IF FilterGiven(year_filter) /\ year_filter.s # T_AllYears
          /\ IsIntText(year_filter.s)
    THEN LET target_year == IntOf(Strip(year_filter.s))
             withYear == [i \in 1..Len(rows) |->
                            rows[i] @@ [Due_Year |-> rows[i].Due.y]]
         IN  SelectSeq(withYear,
                 LAMBDA r : r.Due_Year = target_year \/ r.Due = NaT)
    ELSE rows

\* lines 111-136: one of the vessel / machinery / job action filters;
\* skip is the string the machinery filter treats as "no filter"
ApplySet(rows, col, x, skip) ==
    IF ~FilterGiven(x) THEN rows
    ELSE IF x.kind = "list"
    THEN SelectSeq(rows, LAMBDA r : r[col] \in x.items)
    ELSE IF x.s # skip
    THEN SelectSeq(rows, LAMBDA r : ~IsNa(r[col]) /\ r[col] = x.s)
    ELSE rows

HelperColumns == {"Frequency_Hours", "Frequency_Months", "Due_Year"}

\* lines 138-145
DropHelpers(rows) ==
    [i \in 1..Len(rows) |->
        [c \in (DOMAIN rows[i]) \ HelperColumns |-> rows[i][c]]]

\* lines 67-147: the filter on a loaded store
FilterLoaded(frame, a) ==
    LET copy == [i \in 1..Len(frame.rows) |->
                    frame.rows[i] @@
                    [Frequency_Hours  |-> parse_to_hours(frame.rows[i].Frequency),
                     Frequency_Months |-> parse_to_months(frame.rows[i].Frequency)]]
        frequency_mask == [i \in 1..Len(copy) |->
                    GateRow(copy[i].Frequency, a.min_hours, a.min_months)]
    IN  IF ~MaskAligns(copy, frequency_mask)
        THEN [status |-> "IndexingError", args |-> a]
        ELSE LET gated   == BoolIndex(copy, frequency_mask)
                 byYear  == ApplyYear(gated, a.year_filter)
                 byVess  == ApplySet(byYear, "Vessel", a.vessel_filter, NaN)
                 byMach  == ApplySet(byVess, "Machinery", a.machinery_filter,
                                     T_AllLocations)
                 byAct   == ApplySet(byMach, "JobAction", a.job_action_filter, NaN)
             IN  [status |-> "ok", rows |-> DropHelpers(byAct), args |-> a]

\* mutant: no check that data is loaded; an unloaded processor is filtered
\* as an empty frame
filter_major_machinery_unguarded(frame, a) == FilterLoaded(frame, a)

filter_major_machinery(frame, a) ==
    IF ~frame.loaded THEN [status |-> "NoData", args |-> a]
    ELSE FilterLoaded(frame, a)

-----------------------------------------------------------------------------
(* Inputs of the record store and of the filter *)

V_X == <<"X">>
V_Y == <<"Y">>
L_ME == <<"M","E">>
L_AE == <<"A","E">>
A_OH == <<"O","H">>
A_IN == <<"I","N">>
W_hours  == <<"h","o","u","r","s">>
W_months == <<"m","o","n","t","h","s">>

Dues      == {NaT, Date(2024, 6), Date(2025, 3)}
Vessels   == {V_X, V_Y}
Locations == {L_ME, L_AE}
Actions   == {A_OH, A_IN}

FilterTexts ==
    { Interval(n, 1, W_hours)  : n \in {0, 3999, 4000, 4001} } \cup
    { Interval(n, 1, W_months) : n \in {0, 29, 30, 31} } \cup
    { Interval(4000, 0, <<"H","O","U","R","S">>),
      Interval(2, 1, <<"y","e","a","r","s">>),
      Interval(8000, 1, <<"d","a","y","s">>),
      Interval(8000, 1, <<"w","e","e","k","s">>),
      Interval(4000, 1, <<"h","r","s">>),
      NaN, T_garbage, T_hourly, T_monthly, T_padded, T_blank, T_decimal,
      T_negative, T_hours_months, T_months_hours, T_month_hourword,
      T_year_hourword }

\* every frequency text on one fixed record
GateRows == { CsvRow(f, Date(2025, 3), V_X, L_ME, A_OH) : f \in FilterTexts }

\* every value of the other columns on two records that can pass the gate
FieldRows ==
    { CsvRow(f, d, v, l, a) :
        f \in {Interval(4000, 1, W_hours), Interval(30, 1, W_months)},
        d \in Dues, v \in Vessels \cup {NaN}, l \in Locations, a \in Actions }

\* the rows of the files of more than one row
BatchRows ==
    { BlankRow,
      CsvRow(Interval(4000, 1, W_hours),  Date(2025, 3), V_X, L_ME, A_OH),
      CsvRow(Interval(20, 1, W_months),   Date(2025, 8), V_X, L_AE, A_IN),
      CsvRow(Interval(4000, 1, W_hours),  NaT,           V_Y, L_ME, A_OH) }

RECURSIVE SeqsUpTo(_, _)
SeqsUpTo(S, n) ==
    IF n = 0 THEN { <<>> }
    ELSE LET shorter == SeqsUpTo(S, n - 1)
         IN  shorter \cup { Append(q, x) : q \in shorter, x \in S }

\* the three records of the end-to-end scenario of the specification
ScenarioFile ==
    << CsvRow(Interval(4000, 1, W_hours), Date(2025, 3), V_X, L_ME, A_OH),
       CsvRow(Interval(20, 1, W_months),  Date(2025, 8), V_X, L_AE, A_IN),
       CsvRow(Interval(4000, 1, W_hours), NaT,           V_Y, L_ME, A_OH) >>

Files ==
    { <<r>> : r \in GateRows \cup FieldRows }
        \cup SeqsUpTo(BatchRows, MaxRows) \cup { ScenarioFile }

Thresholds ==
    { [h |-> 0, m |-> 0], [h |-> 4000, m |-> 30], [h |-> 4001, m |-> 31] }
YearFilters ==
    { NoFilter, StrFilter(<<"2","0","2","4">>), StrFilter(<<"2","0","2","5">>),
      StrFilter(T_AllYears), StrFilter(<<"a","b","c">>) }
VesselFilters ==
    { NoFilter, ListFilter({}), ListFilter({V_X}), ListFilter({V_X, V_Y}),
      StrFilter(V_X) }
MachineryFilters ==
    { NoFilter, ListFilter({L_ME}), StrFilter(T_AllLocations) }
JobActionFilters ==
    { NoFilter, ListFilter({A_OH}) }

FilterArgs ==
    { [min_hours |-> t.h, min_months |-> t.m, year_filter |-> y,
       vessel_filter |-> v, machinery_filter |-> l, job_action_filter |-> j] :
        t \in Thresholds, y \in YearFilters, v \in VesselFilters,
        l \in MachineryFilters, j \in JobActionFilters }

-----------------------------------------------------------------------------
(* app.py: display_vessel_kpis_summary *)

\* mutant: the quarter is month // 3 + 1
Quarter_Floor(m) == (m \div 3) + 1

\* Series.dt.quarter
Quarter(m) == ((m - 1) \div 3) + 1

\* mutant: Series.count(), the values that are not NaN, repeated or not
NUnique_Count(rows, col) ==
    Cardinality({ j \in 1..Len(rows) : ~IsNa(rows[j][col]) })

\* Series.nunique(): the distinct values that are not NaN
NUnique(rows, col) ==
    Cardinality({ rows[i][col] : i \in { j \in 1..Len(rows) : ~IsNa(rows[j][col]) } })

\* lines 311-318: the rows with a due date, with their Year and Quarter
WithDates(rows) ==
    LET df_copy == [i \in 1..Len(rows) |->
                      rows[i] @@ [Year    |-> rows[i].Due.y,
                                  Quarter |-> Quarter(rows[i].Due.m)]]
    IN  SelectSeq(df_copy, LAMBDA r : r.Due # NaT)

\* lines 328, 331, 338: the frames the loops select
VesselData(dated, vessel) == SelectSeq(dated, LAMBDA r : r.Vessel = vessel)
YearData(dated, vessel, year) ==
    SelectSeq(VesselData(dated, vessel), LAMBDA r : r.Year = year)
\* mutant: the quarter is not selected, the frame of the whole year is used
QuarterData_WholeYear(dated, vessel, year, quarter) ==
    YearData(dated, vessel, year)

QuarterData(dated, vessel, year, quarter) ==
    SelectSeq(YearData(dated, vessel, year), LAMBDA r : r.Quarter = quarter)

\* lines 327-347: one entry per vessel, year of that vessel and quarter
KpiData(dated) ==
    { [Vessel |-> v, Year |-> y, Quarter |-> q,
       Machinery_Count |-> NUnique(QuarterData(dated, v, y, q), "Machinery"),
       Year_Total      |-> NUnique(YearData(dated, v, y), "Machinery")] :
        v \in { dated[i].Vessel : i \in 1..Len(dated) },
        y \in { dated[i].Year : i \in 1..Len(dated) },
        q \in 1..4 }

\* the loop over years runs over the years of the vessel only
KpiEntries(dated) ==
    { e \in KpiData(dated) : YearData(dated, e.Vessel, e.Year) # <<>> }

\* line 338: the labels of the rows of quarter_data, per loop iteration
Buckets(dated) ==
    [k \in { <<e.Vessel, e.Year, e.Quarter>> : e \in KpiEntries(dated) } |->
        LET quarter_data == QuarterData(dated, k[1], k[2], k[3])
        IN  { quarter_data[j].label : j \in 1..Len(quarter_data) }]

\* lines 353-368: the pivot table, one row per (Vessel, Year)
PivotTable(entries) ==
    LET cell(v, y, q) ==
            (CHOOSE e \in entries :
                e.Vessel = v /\ e.Year = y /\ e.Quarter = q).Machinery_Count
        total(v, y) ==
            (CHOOSE e \in entries : e.Vessel = v /\ e.Year = y).Year_Total
    IN  [k \in { <<e.Vessel, e.Year>> : e \in entries } |->
            [Q1 |-> cell(k[1], k[2], 1), Q2 |-> cell(k[1], k[2], 2),
             Q3 |-> cell(k[1], k[2], 3), Q4 |-> cell(k[1], k[2], 4),
             YearTotal |-> total(k[1], k[2])]]

display_vessel_kpis_summary(rows) ==
    IF rows = <<>> THEN [status |-> "no_vessel_data"]
    ELSE LET df_with_dates == WithDates(rows)
         IN  IF df_with_dates = <<>> THEN [status |-> "no_valid_dates"]
             ELSE [status  |-> "ok",
                   buckets |-> Buckets(df_with_dates),
                   table   |-> PivotTable(KpiEntries(df_with_dates))]

\* Frames given to the table.  display_analysis joins the vessel names
\* before it builds the table (app.py line 285), which needs every Vessel to
\* be a string, so the table only sees rows with a vessel.
KpiRow(v, d, l) == [Vessel |-> v, Due |-> d, Machinery |-> l]

KpiAnyRows ==
    { KpiRow(v, d, l) :
        v \in Vessels,
        d \in {NaT} \cup { Date(y, m) : y \in {2024, 2025}, m \in 1..12 },
        l \in Locations \cup {NaN} }

KpiBatchRows ==
    { KpiRow(v, Date(y, m), l) :
        v \in Vessels, y \in {2024, 2025}, m \in {2, 7}, l \in Locations }
    \cup { KpiRow(V_X, NaT, L_ME), KpiRow(V_X, Date(2025, 2), NaN) }

\* the rows under the labels 0, 1, 2, ...
Labelled(q) == [i \in 1..Len(q) |-> [label |-> i - 1] @@ q[i]]

KpiFrames ==
    { Labelled(q) :
        q \in { <<r>> : r \in KpiAnyRows } \cup SeqsUpTo(KpiBatchRows, MaxRecs) }

ShowKpis ==
    /\ ktab.status = "none"
    /\ ktab' = display_vessel_kpis_summary(kin)
    /\ UNCHANGED <<df, out, ptext, pcalled, phours, pmonths, pcat, kin, btab, procs>>

-----------------------------------------------------------------------------
(* Idle values of the parts a specification does not exercise *)

\* self.df = None
NoFrame == [loaded |-> FALSE, rows |-> <<>>]
NoCall  == [status |-> "none"]

ProcessorIdle == df = NoFrame /\ out = NoCall
ParserIdle    ==
    ptext = NaN /\ pcalled = {} /\ phours = None /\ pmonths = None /\ pcat = "none"
KpiIdle       == kin = <<>> /\ ktab = [status |-> "none"]
BreakdownIdle == btab = [status |-> "none"]
SessionIdle   == procs = <<>>

InitParser ==
    /\ ptext \in ParserTexts \cup CategoryTexts
    /\ pcalled = {}
    /\ phours = None
    /\ pmonths = None
    /\ pcat = "none"
    /\ ProcessorIdle
    /\ KpiIdle
    /\ BreakdownIdle
    /\ SessionIdle

NextParser == ParseToHours \/ ParseToMonths \/ GetFrequencyCategory

SpecParser == InitParser /\ [][NextParser]_vars

InitKpi ==
    /\ kin \in KpiFrames
    /\ ktab = [status |-> "none"]
    /\ ProcessorIdle
    /\ ParserIdle
    /\ BreakdownIdle
    /\ SessionIdle

NextKpi == ShowKpis

SpecKpi == InitKpi /\ [][NextKpi]_vars

-----------------------------------------------------------------------------
(* DataProcessor: load a file, call the filter.  Calls are synchronous: *)
(* the caller takes the outcome of one call before it makes the next.   *)

Load(file) ==
    /\ out = NoCall
    /\ df' = load_data(file)
    /\ UNCHANGED <<out, ptext, pcalled, phours, pmonths, pcat, kin, ktab, btab, procs>>

\* mutant: line 68 without .copy(): lines 71-76 write the helper columns
\* into the store itself
StoreAfterFilter_NoCopy(frame, a) ==
    IF ~frame.loaded THEN frame
    ELSE [frame EXCEPT !.rows =
            [i \in 1..Len(frame.rows) |->
                frame.rows[i] @@
                    [Frequency_Hours  |-> parse_to_hours(frame.rows[i].Frequency),
                     Frequency_Months |-> parse_to_months(frame.rows[i].Frequency)]]]

\* line 68: the filter works on self.df.copy(), every later assignment is
\* to the copy or to a frame derived from it
StoreAfterFilter(frame, a) == frame

Filter(a) ==
    /\ out = NoCall
    /\ out' = filter_major_machinery(df, a)
    /\ df' = StoreAfterFilter(df, a)
    /\ UNCHANGED <<ptext, pcalled, phours, pmonths, pcat, kin, ktab, btab, procs>>

\* the caller has used the outcome (returned frame or raised exception)
TakeOutcome ==
    /\ out # NoCall
    /\ out' = NoCall
    /\ UNCHANGED <<df, ptext, pcalled, phours, pmonths, pcat, kin, ktab, btab, procs>>

Init ==
    /\ df = NoFrame
    /\ out = NoCall
    /\ ParserIdle
    /\ KpiIdle
    /\ BreakdownIdle
    /\ SessionIdle

Next ==
    \/ \E file \in Files : Load(file)
    \/ \E a \in FilterArgs : Filter(a)
    \/ TakeOutcome

Spec == Init /\ [][Next]_vars

-----------------------------------------------------------------------------
(* The application session (app.py): df is st.session_state.combined_data, *)
(* kin is st.session_state.filtered_data as display_analysis receives it,  *)
(* out the outcome of the last filter call of "Apply Filters".             *)

\* app.py lines 248-288: what display_analysis makes of the filtered frame
display_analysis(filtered_df) ==
    IF filtered_df = <<>> THEN [status |-> "no_match"]
    ELSE IF \E i \in 1..Len(filtered_df) : IsNa(filtered_df[i].Vessel)
         THEN [status |-> "TypeError"]      \* line 285: ', '.join of a NaN
         ELSE display_vessel_kpis_summary(filtered_df)

\* files of the session: one record, one record after a blank row, and the
\* three records of the scenario
AnalysisFiles ==
    { <<r>> : r \in BatchRows }
    \cup { <<BlankRow, r>> : r \in BatchRows \ {BlankRow} }
    \cup { ScenarioFile }

\* what the sidebar widgets can pass: thresholds above their minimum, a year
\* or None ("All Years"), a list of vessels or None
AnalysisArgs ==
    { [min_hours |-> t.h, min_months |-> t.m, year_filter |-> y,
       vessel_filter |-> v, machinery_filter |-> NoFilter,
       job_action_filter |-> NoFilter] :
        t \in { x \in Thresholds : x.h > 0 },
        y \in { x \in YearFilters : x = NoFilter \/ IsIntText(x.s) },
        v \in {NoFilter, ListFilter({V_X})} }

\* an uploaded file: its name and its rows, or a file read_csv cannot read
\* (no bytes at all), for which load_data raises
UploadedFile(n, rows) == [name |-> n, readable |-> TRUE, rows |-> rows]
UnreadableFile(n) == [name |-> n, readable |-> FALSE, rows |-> <<>>]

\* lines 50-76, single file mode: the upload replaces data_processors and
\* combined_data and leaves filtered_data as it is; when load_data raises,
\* nothing has been assigned yet
Upload(file) ==
    /\ IF file.readable
       THEN /\ procs' = << [name |-> file.name, df |-> load_data(file.rows)] >>
            /\ df' = load_data(file.rows)
       ELSE UNCHANGED <<df, procs>>
    /\ UNCHANGED <<out, ptext, pcalled, phours, pmonths, pcat, kin, ktab, btab>>

\* lines 187-216: "Apply Filters" stores the frame the filter returns and
\* the rerun displays it; an exception of the filter ends the run before
\* filtered_data is assigned
ApplyFilters(a) ==
    /\ df.loaded
    /\ LET result == filter_major_machinery(df, a)
       IN  /\ out' = result
           /\ IF result.status = "ok"
              THEN /\ kin' = result.rows
                   /\ ktab' = display_analysis(result.rows)
              ELSE UNCHANGED <<kin, ktab>>
    /\ df' = StoreAfterFilter(df, a)
    /\ UNCHANGED <<ptext, pcalled, phours, pmonths, pcat, btab, procs>>

NextAnalysis ==
    \/ \E file \in AnalysisFiles : Upload(UploadedFile("data.csv", file))
    \/ \E a \in AnalysisArgs : ApplyFilters(a)

SpecAnalysis == Init /\ [][NextAnalysis]_vars

-----------------------------------------------------------------------------
(* The uploads of the session (app.py lines 43-123) *)

\* data_processors[name] = processor: a new name goes to the end of the
\* dict, a name it already has keeps its place and gets the new processor
DictSet(dict, n, frame) ==
    IF \E i \in 1..Len(dict) : dict[i].name = n
    THEN [i \in 1..Len(dict) |->
            IF dict[i].name = n THEN [name |-> n, df |-> frame] ELSE dict[i]]
    ELSE Append(dict, [name |-> n, df |-> frame])

\* lines 98-103: the processors of the files, in upload order
RECURSIVE ProcessorsOf(_)
ProcessorsOf(files) ==
    IF files = <<>> THEN <<>>
    ELSE LET last == files[Len(files)]
         IN  DictSet(ProcessorsOf(SubSeq(files, 1, Len(files) - 1)),
                     last.name, load_data(last.rows))

\* the rows of the frames, one frame after the other
RECURSIVE ConcatRows(_)
ConcatRows(frames) ==
    IF frames = <<>> THEN <<>>
    ELSE frames[1].rows \o ConcatRows(Tail(frames))

\* line 107: pd.concat(all_dataframes, ignore_index=True)
Concat(frames) == [loaded |-> TRUE, rows |-> Labelled(ConcatRows(frames))]

\* the files before the first one load_data raises on
ReadablePrefix(files) ==
    SubSeq(files, 1,
        IF \A i \in 1..Len(files) : files[i].readable THEN Len(files)
        ELSE (CHOOSE i \in 1..Len(files) :
                 /\ ~files[i].readable
                 /\ \A j \in 1..(i - 1) : files[j].readable) - 1)

\* lines 86-123, multiple files mode: data_processors is emptied, then
\* filled file by file; combined_data is assigned after the loop, which an
\* exception of load_data leaves before that
UploadMultiple(files) ==
    /\ files # <<>>
    /\ procs' = ProcessorsOf(ReadablePrefix(files))
    /\ IF ReadablePrefix(files) = files
       THEN df' = Concat([i \in 1..Len(files) |-> load_data(files[i].rows)])
       ELSE UNCHANGED df
    /\ UNCHANGED <<out, ptext, pcalled, phours, pmonths, pcat, kin, ktab, btab>>

MaxFiles == 2       \* files of one upload in multiple files mode

UploadFiles ==
    { UploadedFile("a.csv", <<CsvRow(Interval(4000, 1, W_hours), Date(2025, 3),
                                     V_X, L_ME, A_OH)>>),
      UploadedFile("b.csv", <<CsvRow(Interval(20, 1, W_months), Date(2025, 8),
                                     V_X, L_AE, A_IN),
                              CsvRow(Interval(4000, 1, W_hours), NaT,
                                     V_Y, L_ME, A_OH)>>),
      UploadedFile("c.csv", <<BlankRow,
                              CsvRow(Interval(30, 1, W_months), Date(2024, 6),
                                     V_Y, L_AE, A_OH)>>),
      UploadedFile("d.csv", <<>>),
      UploadedFile("e.csv", <<CsvRow(T_month_hourword, Date(2025, 11),
                                     V_X, L_ME, A_IN)>>),
      UnreadableFile("bad.csv") }

\* the uploader hands over files of different names
UploadBatches ==
    { fs \in SeqsUpTo(UploadFiles, MaxFiles) :
        \A i, j \in 1..Len(fs) : i # j => fs[i].name # fs[j].name }

NextUpload ==
    \/ \E file \in UploadFiles : Upload(file)
    \/ \E files \in UploadBatches : UploadMultiple(files)

SpecUpload == Init /\ [][NextUpload]_vars

-----------------------------------------------------------------------------
(* data_processor.py: get_machinery_breakdown *)

T_Unknown == <<"U","n","k","n","o","w","n">>
T_Pending == <<"P","e","n","d","i","n","g">>
T_Done    == <<"D","o","n","e">>

\* ', '.join(texts)
RECURSIVE Join(_)
Join(texts) ==
    IF texts = <<>> THEN <<>>
    ELSE IF Len(texts) = 1 THEN texts[1]
    ELSE texts[1] \o <<",", " ">> \o Join(Tail(texts))

\* Series.dropna(): the values of a column that are not NaN, in row order
DropNa(rows, col) ==
    LET present == SelectSeq(rows, LAMBDA r : ~IsNa(r[col]))
    IN  [i \in 1..Len(present) |-> present[i][col]]

\* Series.unique(): the distinct values in order of first appearance
RECURSIVE Unique(_)
Unique(values) ==
    IF values = <<>> THEN <<>>
    ELSE LET rest == Unique(SubSeq(values, 1, Len(values) - 1))
             last == values[Len(values)]
         IN  IF \E i \in 1..Len(rest) : rest[i] = last THEN rest
             ELSE Append(rest, last)

\* mutant: every distinct frequency is listed
FrequencySample_All(x) ==
    IF DropNa(x, "Frequency") = <<>> THEN T_Unknown
    ELSE Join(Unique(DropNa(x, "Frequency")))

\* line 184: ', '.join(x.dropna().astype(str).unique()[:3]), or 'Unknown'
FrequencySample(x) ==
    IF DropNa(x, "Frequency") = <<>> THEN T_Unknown
    ELSE LET unique == Unique(DropNa(x, "Frequency"))
         IN  Join(SubSeq(unique, 1, IF Len(unique) < 3 THEN Len(unique) ELSE 3))

\* line 183: ', '.join of the distinct departments, or 'Unknown'
DepartmentList(x) ==
    IF DropNa(x, "Department") = <<>> THEN T_Unknown
    ELSE Join(Unique(DropNa(x, "Department")))

\* order of the group keys (texts of capital letters)
RECURSIVE TextBefore(_, _)
TextBefore(a, b) ==
    IF a = <<>> THEN b # <<>>
    ELSE IF b = <<>> THEN FALSE
    ELSE IF Head(a) = Head(b) THEN TextBefore(Tail(a), Tail(b))
    ELSE (CHOOSE i \in 1..26 : Upper[i] = Head(a))
            < (CHOOSE i \in 1..26 : Upper[i] = Head(b))

\* line 191: sort_values('Total Jobs', ascending=False); groups with equal
\* totals keep the order of their keys (short columns are sorted stably)
RECURSIVE SortByTotalJobs(_)
SortByTotalJobs(groups) ==
    IF groups = {} THEN <<>>
    ELSE LET first == CHOOSE g \in groups : \A o \in groups \ {g} :
                          \/ g.TotalJobs > o.TotalJobs
                          \/ g.TotalJobs = o.TotalJobs
                                /\ TextBefore(g.Location, o.Location)
         IN  <<first>> \o SortByTotalJobs(groups \ {first})

\* lines 176-191; groupby leaves out the rows without a machinery location
get_machinery_breakdown(frame) ==
    IF ~frame.loaded THEN [status |-> "empty"]
    ELSE LET group(k) == SelectSeq(frame.rows, LAMBDA r : r.Machinery = k)
             keys == { frame.rows[i].Machinery : i \in 1..Len(frame.rows) } \ {NaN}
         IN  [status |-> "ok",
              rows |-> SortByTotalJobs(
                { [Location    |-> k,
                   TotalJobs   |-> Len(DropNa(group(k), "JobCode")),
                   PendingJobs |-> Len(SelectSeq(group(k),
                                        LAMBDA r : r.JobStatus = T_Pending)),
                   Departments |-> DepartmentList(group(k)),
                   Frequencies |-> FrequencySample(group(k))] : k \in keys })]

\* Records of the store, as cleaned by load_data
JobRow(l, f, c, s, d) ==
    [Machinery |-> l, Frequency |-> f, JobCode |-> c, JobStatus |-> s,
     Department |-> d]

MaxJobs == 4        \* rows of a store given to get_machinery_breakdown

F_4000h == Interval(4000, 1, W_hours)
F_8000h == Interval(8000, 1, W_hours)
F_30m   == Interval(30, 1, W_months)
F_2y    == Interval(2, 1, <<"y","e","a","r","s">>)
J_1     == <<"J","1">>
D_ENG   == <<"E","N","G">>
D_DECK  == <<"D","E","C","K">>

JobRows ==
    { JobRow(L_ME, f, J_1, T_Pending, D_ENG) :
        f \in {F_4000h, F_8000h, F_30m, F_2y, NaN} }
    \cup { JobRow(L_AE, F_4000h, NaN, T_Pending, NaN),
           JobRow(L_AE, NaN, J_1, T_Done, D_DECK),
           JobRow(NaN, F_30m, J_1, T_Done, D_DECK) }

JobFrames ==
    {NoFrame} \cup
    { [loaded |-> TRUE, rows |-> Labelled(q)] : q \in SeqsUpTo(JobRows, MaxJobs) }

MachineryBreakdown ==
    /\ btab.status = "none"
    /\ btab' = get_machinery_breakdown(df)
    /\ UNCHANGED <<df, out, ptext, pcalled, phours, pmonths, pcat, kin, ktab,
                   procs>>

InitBreakdown ==
    /\ df \in JobFrames
    /\ out = NoCall
    /\ ParserIdle
    /\ KpiIdle
    /\ BreakdownIdle
    /\ SessionIdle

NextBreakdown == MachineryBreakdown

SpecBreakdown == InitBreakdown /\ [][NextBreakdown]_vars

-----------------------------------------------------------------------------
(* Properties of the parser, checked under SpecParser *)

HoursCalled  == "hours" \in pcalled
MonthsCalled == "months" \in pcalled

\* the text is "<n> hours" / "<n> months": the number, optional spaces, the
\* unit word in singular or plural and any letter case
IsHourText(t, n)  == \E k \in 0..MaxSpaces, w \in HourWords : t = Interval(n, k, w)
IsMonthText(t, n) == \E k \in 0..MaxSpaces, w \in MonthWords : t = Interval(n, k, w)

\* a digit, then optional spaces, then the unit word w, somewhere in t
NumberThenUnit(t, w) ==
    \E i \in 1..Len(t), k \in 0..Len(t) :
        /\ IsDigit(t[i])
        /\ i + k <= Len(t)
        /\ \A x \in (i + 1)..(i + k) : IsSpace(t[x])
        /\ WordAt(t, i + k + 1, w)

RecognizedUnits ==
    {hour_pattern, month_pattern, year_pattern, day_pattern, week_pattern}

\* empty, null, or no number followed by a recognized unit
NoInterval(t) ==
    \/ IsNa(t)
    \/ t = <<>>
    \/ \A w \in RecognizedUnits : ~NumberThenUnit(t, w)

\* C6: for every n >= 0, parse_to_hours("<n> hours") is exactly n and
\* parse_to_months("<n> months") is exactly n (n * 10 tenths), whatever the
\* letter case, the plural s and the spaces between number and unit.
C6_SameUnitExact ==
    \A n \in Nums :
        /\ (HoursCalled /\ IsHourText(ptext, n)) => phours = n
        /\ (MonthsCalled /\ IsMonthText(ptext, n)) => pmonths = 10 * n

C6_Witness ==
    /\ pcalled = {"hours", "months"}
    /\ ptext = Interval(4000, 0, <<"H","O","U","R","S">>)
    /\ phours = 4000

\* C7 as stated: parse_to_months of an hour text is absent, and
\* parse_to_hours of a month text is absent (strict same-unit parsing).
C7_StrictSameUnit ==
    \A n \in Nums :
        /\ (MonthsCalled /\ IsHourText(ptext, n)) => pmonths = None
        /\ (HoursCalled /\ IsMonthText(ptext, n)) => phours = None

\* C7 amended: the parser normalises across units.  parse_to_months of
\* "<n> hours" is present and is n / 720 to the nearest tenth of a month;
\* parse_to_hours of "<n> months" is present and is n * 720.
C7_CrossUnit ==
    \A n \in Nums :
        /\ (MonthsCalled /\ IsHourText(ptext, n)) =>
              /\ pmonths # None
              /\ 2 * (72 * pmonths - n) <= 72
              /\ 2 * (n - 72 * pmonths) <= 72
        /\ (HoursCalled /\ IsMonthText(ptext, n)) => phours = n * 720

C7_Witness ==
    /\ pcalled = {"hours", "months"}
    /\ ptext = Interval(4000, 1, W_hours)
    /\ pmonths = 56

\* C8: empty text, null and text without a number followed by a recognized
\* unit give absent from both functions, and for every text one function
\* answers exactly when the other does.
C8_AbsentTogether ==
    /\ (HoursCalled /\ NoInterval(ptext)) => phours = None
    /\ (MonthsCalled /\ NoInterval(ptext)) => pmonths = None
    /\ (HoursCalled /\ MonthsCalled) => ((phours = None) <=> (pmonths = None))

C8_Witness ==
    /\ pcalled = {"hours", "months"}
    /\ ptext = T_garbage
    /\ phours = None
    /\ pmonths = None

-----------------------------------------------------------------------------
(* Properties of filter_major_machinery, checked under Spec *)

Called == out.status # "none"

\* the row of the store is a row of the returned frame
InResult(r) ==
    /\ out.status = "ok"
    /\ \E j \in 1..Len(out.rows) : out.rows[j] = r

NoOptionalFilter(a) ==
    /\ ~FilterGiven(a.year_filter)
    /\ ~FilterGiven(a.vessel_filter)
    /\ ~FilterGiven(a.machinery_filter)
    /\ ~FilterGiven(a.job_action_filter)

\* numbers written in the frequency texts of the store
GateNums == Nums \cup {20}

\* C1, for the calls selected by P: with positive thresholds and no optional
\* filter, a record "<n> hours" (n > 0) is in the result iff n >= min_hours,
\* and a record "<n> months" iff n >= min_months.
GateBoundary(P) ==
    (Called /\ P /\ NoOptionalFilter(out.args)
        /\ out.args.min_hours > 0 /\ out.args.min_months > 0) =>
    \A i \in 1..Len(df.rows) : \A n \in GateNums \ {0} :
        /\ IsHourText(df.rows[i].Frequency, n) =>
              (InResult(df.rows[i]) <=> n >= out.args.min_hours)
        /\ IsMonthText(df.rows[i].Frequency, n) =>
              (InResult(df.rows[i]) <=> n >= out.args.min_months)

\* C1: the gate boundary, for every call on a loaded store.
C1_GateBoundary == GateBoundary(TRUE)

\* The gate boundary of C1 for the calls that return a frame.
GateBoundaryWhenReturned == GateBoundary(out.status = "ok")

\* the text mentions neither unit word the gate looks for
NoGateWord(t) ==
    /\ ~Contains(Lower(t), hour_pattern)
    /\ ~Contains(Lower(t), month_pattern)

\* C2: a record whose frequency is null or empty, has no parseable interval,
\* or is written in days, weeks or years only (no hour or month word in the
\* text) is in no result, whatever the thresholds.
C2_NeverMajor ==
    Called =>
    \A i \in 1..Len(df.rows) :
        (NoInterval(df.rows[i].Frequency) \/ NoGateWord(df.rows[i].Frequency))
            => ~InResult(df.rows[i])

\* "2 years" is converted by both parse functions, the thresholds are 0,
\* the call returns, and the record is not in the result
C2_Witness ==
    /\ out.status = "ok"
    /\ out.args.min_hours = 0
    /\ out.args.min_months = 0
    /\ NoOptionalFilter(out.args)
    /\ Len(df.rows) = 1
    /\ df.rows[1].Frequency = Interval(2, 1, <<"y","e","a","r","s">>)
    /\ parse_to_hours(df.rows[1].Frequency) = 17520
    /\ parse_to_months(df.rows[1].Frequency) = 240
    /\ out.rows = <<>>

\* the record passes the interval gate of the call
PassesGate(r) == GateRow(r.Frequency, out.args.min_hours, out.args.min_months)

\* C3, for the calls selected by P: with a valid year Y as the only optional
\* filter, a gate-passing record is in the result iff its due date is absent
\* or in year Y.
YearFilterKeeps(P) ==
    (Called /\ P /\ FilterGiven(out.args.year_filter)
        /\ IsIntText(out.args.year_filter.s)
        /\ ~FilterGiven(out.args.vessel_filter)
        /\ ~FilterGiven(out.args.machinery_filter)
        /\ ~FilterGiven(out.args.job_action_filter)) =>
    \A i \in 1..Len(df.rows) :
        PassesGate(df.rows[i]) =>
            (InResult(df.rows[i]) <=>
                \/ df.rows[i].Due = NaT
                \/ df.rows[i].Due.y = IntOf(out.args.year_filter.s))

\* C3: the year filter, for every call on a loaded store.
C3_YearFilter == YearFilterKeeps(TRUE)

\* The year filter of C3 for the calls that return a frame.
YearFilterWhenReturned == YearFilterKeeps(out.status = "ok")

\* a set filter as the claim reads it: the set of admitted values, or
\* "no restriction" when empty or absent
Admits(x, v) ==
    \/ x.kind = "none"
    \/ x.kind = "list" /\ (x.items = {} \/ v \in x.items)

IsSetFilter(x) == x.kind \in {"none", "list"}

\* C4, for the calls selected by P: with list-valued (or absent) vessel,
\* machinery and job action filters and no year filter, the result is the
\* gate-passing records admitted by every one of the three filters, an empty
\* or absent filter admitting every record.
SetFiltersKeep(P) ==
    (Called /\ P /\ ~FilterGiven(out.args.year_filter)
        /\ IsSetFilter(out.args.vessel_filter)
        /\ IsSetFilter(out.args.machinery_filter)
        /\ IsSetFilter(out.args.job_action_filter)) =>
    \A i \in 1..Len(df.rows) :
        PassesGate(df.rows[i]) =>
            (InResult(df.rows[i]) <=>
                /\ Admits(out.args.vessel_filter, df.rows[i].Vessel)
                /\ Admits(out.args.machinery_filter, df.rows[i].Machinery)
                /\ Admits(out.args.job_action_filter, df.rows[i].JobAction))

\* C4: the set filters, for every call on a loaded store.
C4_SetFilters == SetFiltersKeep(TRUE)

\* The set filters of C4 for the calls that return a frame.
SetFiltersWhenReturned == SetFiltersKeep(out.status = "ok")

\* C5: a call on a processor without data ends in the "no data loaded"
\* error and returns no frame, and leaves the processor as constructed.
C5_NoDataLoaded ==
    /\ (Called /\ ~df.loaded) =>
          (out.status = "NoData" /\ "rows" \notin DOMAIN out)
    /\ out.status = "NoData" => df = NoFrame

C5_Witness == out.status = "NoData" /\ df = NoFrame

\* no helper field is a column of the store or of a returned frame
NoHelperColumns ==
    /\ \A i \in 1..Len(df.rows) : DOMAIN df.rows[i] \cap HelperColumns = {}
    /\ out.status = "ok" =>
          \A j \in 1..Len(out.rows) : DOMAIN out.rows[j] \cap HelperColumns = {}

\* the same call on the store as the last call left it has the same outcome
RepeatedCallSame == Called => filter_major_machinery(df, out.args) = out

\* a step that makes a filter call leaves the store as it was
FilterKeepsStore == (out = NoCall /\ out' # NoCall) => df' = df

\* C15: the filter works on a copy.  Every filter call leaves the store with
\* the rows, columns and values it had (so after any sequence of calls the
\* store is as after load); Frequency_Hours, Frequency_Months and Due_Year
\* appear neither in the store nor in a returned frame; and repeating a
\* call with the same arguments gives the same outcome.
C15_WorksOnCopy ==
    /\ [](NoHelperColumns /\ RepeatedCallSame)
    /\ [][FilterKeepsStore]_vars

\* a call with a year filter (all three helper fields are built) has
\* returned a record
C15_Witness ==
    /\ out.status = "ok"
    /\ FilterGiven(out.args.year_filter)
    /\ IsIntText(out.args.year_filter.s)
    /\ Len(out.rows) = 1
    /\ df.loaded
    /\ Len(df.rows) = 2

\* two calls end alike: both return the same frame or both raise the same
SameOutcome(o1, o2) ==
    /\ o1.status = o2.status
    /\ o1.status = "ok" => o1.rows = o2.rows

\* C16: a year_filter that is not a number ("abc"), and "All Years", is a
\* no-op and not an error: the call ends as the same call without a year
\* filter ends, with the same returned frame.
C16_InvalidYearNoOp ==
    (Called /\ df.loaded /\ FilterGiven(out.args.year_filter)
        /\ ~IsIntText(out.args.year_filter.s)) =>
        SameOutcome(out,
            filter_major_machinery(df,
                [out.args EXCEPT !.year_filter = NoFilter]))

\* a dated, gate-passing record is returned under the year filter "abc"
C16_Witness ==
    /\ out.status = "ok"
    /\ out.args.year_filter = StrFilter(<<"a","b","c">>)
    /\ Len(out.rows) = 1
    /\ out.rows[1].Due = Date(2025, 3)

\* C17: for the calls that return a frame, with no optional filter: a record
\* "<n> hours" is in the result iff n >= min_hours and a record "<n> months"
\* iff n >= min_months, for every n >= 0 and every threshold >= 0; so
\* "0 hours" passes at min_hours = 0 and "0 months" at min_months = 0.
C17_PresenceNotTruth ==
    (out.status = "ok" /\ NoOptionalFilter(out.args)) =>
    \A i \in 1..Len(df.rows) : \A n \in GateNums :
        /\ IsHourText(df.rows[i].Frequency, n) =>
              (InResult(df.rows[i]) <=> n >= out.args.min_hours)
        /\ IsMonthText(df.rows[i].Frequency, n) =>
              (InResult(df.rows[i]) <=> n >= out.args.min_months)

\* a record whose text holds an hour and a month interval is judged by the
\* gate in the hour category only: it is in the result iff 4000 >= min_hours
BothIntervalsGateByHours ==
    (out.status = "ok" /\ NoOptionalFilter(out.args)) =>
    \A i \in 1..Len(df.rows) :
        df.rows[i].Frequency \in {T_hours_months, T_months_hours} =>
            (InResult(df.rows[i]) <=> 4000 >= out.args.min_hours)

\* the labels of the store are the positions 0..k-1
LabelsConsecutive ==
    \A i \in 1..Len(df.rows) : df.rows[i].label = i - 1

\* the call completes and, with no optional filter, returns exactly the
\* records that pass the gate, in the order of the store
ReturnsGatePassing ==
    /\ out.status = "ok"
    /\ NoOptionalFilter(out.args) =>
          out.rows = SelectSeq(df.rows, LAMBDA r : PassesGate(r))

\* C21: no single row aborts a batch.  For every loaded store the filter
\* completes and returns exactly the rows that pass the gate and the
\* filters, whatever the rows hold, also when blank rows were discarded at
\* load and the labels of the store are no longer 0..k-1.
C21_NoRowAborts == (Called /\ df.loaded) => ReturnsGatePassing

\* The statement of C21 for the stores whose labels are 0..k-1.
CompletesWithoutGap ==
    (Called /\ df.loaded /\ LabelsConsecutive) => ReturnsGatePassing

\* the number of the first interval of the unit written in the text, or
\* None when the text has none
NumberWritten(t, unit) ==
    IF Search(t, unit) = 0 THEN None ELSE Group1(t, Search(t, unit))

\* C22: each record is judged in one category by its own interval.  For the
\* calls that return a frame, with no optional filter: a record whose text
\* has no hour interval "<n> hours" and carries a month interval
\* "<n> months" (n > 0), such as "6 months, check hour counter", is in the
\* result iff n >= min_months, never through n months converted to hours.
C22_OwnIntervalOnly ==
    (out.status = "ok" /\ NoOptionalFilter(out.args)) =>
    \A i \in 1..Len(df.rows) :
        LET t == df.rows[i].Frequency
        IN  (NumberWritten(t, hour_pattern) = None
                /\ NumberWritten(t, month_pattern) # None
                /\ NumberWritten(t, month_pattern) > 0) =>
            (InResult(df.rows[i]) <=>
                NumberWritten(t, month_pattern) >= out.args.min_months)

-----------------------------------------------------------------------------
(* Properties of the vessel KPI table, checked under SpecKpi *)

Dated(i) == kin[i].Due # NaT
AllDated == \A i \in 1..Len(kin) : Dated(i)

\* C9: every record with a due date is in the bucket of its vessel, the
\* year of the date and the quarter ceil(month / 3), and in no other bucket.
C9_QuarterBucket ==
    ktab.status = "ok" =>
    \A i \in 1..Len(kin) :
        Dated(i) =>
            { k \in DOMAIN ktab.buckets : kin[i].label \in ktab.buckets[k] }
                = { <<kin[i].Vessel, kin[i].Due.y, (kin[i].Due.m + 2) \div 3>> }

C9_Witness ==
    /\ ktab.status = "ok"
    /\ Len(kin) = 1
    /\ kin[1].Due = Date(2025, 7)
    /\ ktab.buckets[<<kin[1].Vessel, 2025, 3>>] = {0}

\* the records of a vessel due in a year, and their machinery locations
RecordsDue(v, y) ==
    { i \in 1..Len(kin) : Dated(i) /\ kin[i].Vessel = v /\ kin[i].Due.y = y }
LocationsDue(v, y, months) ==
    { kin[i].Machinery :
        i \in { j \in RecordsDue(v, y) :
                   kin[j].Due.m \in months /\ ~IsNa(kin[j].Machinery) } }

QuarterSum(row) == row.Q1 + row.Q2 + row.Q3 + row.Q4

AllLocated == \A i \in 1..Len(kin) : ~IsNa(kin[i].Machinery)

\* C10 as stated: with all records dated, Year Total = Q1 + Q2 + Q3 + Q4 =
\* the number of the vessel's records due in the year.  (Stated for the
\* record sets in which every record also has a machinery location.)
C10_SumOfQuarters ==
    (ktab.status = "ok" /\ AllDated /\ AllLocated) =>
    \A k \in DOMAIN ktab.table :
        /\ ktab.table[k].YearTotal = QuarterSum(ktab.table[k])
        /\ ktab.table[k].YearTotal = Cardinality(RecordsDue(k[1], k[2]))

\* C10 amended: the cells count distinct machinery locations.  Each Qi is
\* the number of distinct locations of the vessel's records due in that
\* quarter, Year Total the number of distinct locations due in the year, so
\* Year Total <= Q1 + Q2 + Q3 + Q4 <= number of records, with equality when
\* the records of the row have pairwise different, present locations.
C10_DistinctLocations ==
    (ktab.status = "ok" /\ AllDated) =>
    \A k \in DOMAIN ktab.table :
        LET row  == ktab.table[k]
            recs == RecordsDue(k[1], k[2])
        IN  /\ row.Q1 = Cardinality(LocationsDue(k[1], k[2], 1..3))
            /\ row.Q2 = Cardinality(LocationsDue(k[1], k[2], 4..6))
            /\ row.Q3 = Cardinality(LocationsDue(k[1], k[2], 7..9))
            /\ row.Q4 = Cardinality(LocationsDue(k[1], k[2], 10..12))
            /\ row.YearTotal = Cardinality(LocationsDue(k[1], k[2], 1..12))
            /\ row.YearTotal <= QuarterSum(row)
            /\ QuarterSum(row) <= Cardinality(recs)
            /\ (Cardinality(LocationsDue(k[1], k[2], 1..12)) = Cardinality(recs))
                  => (row.YearTotal = QuarterSum(row)
                        /\ row.YearTotal = Cardinality(recs))

\* two records of one vessel and one location, due in Q1 and Q3 of a year
C10_Witness ==
    /\ ktab.status = "ok"
    /\ Len(kin) = 2
    /\ kin[1] = [label |-> 0, Vessel |-> V_X, Due |-> Date(2025, 2), Machinery |-> L_ME]
    /\ kin[2] = [label |-> 1, Vessel |-> V_X, Due |-> Date(2025, 7), Machinery |-> L_ME]
    /\ ktab.table[<<V_X, 2025>>] =
          [Q1 |-> 1, Q2 |-> 0, Q3 |-> 1, Q4 |-> 0, YearTotal |-> 1]

\* the cell of quarter q in a row of the table, and the months of quarter q
CellOf(row, q) ==
    CASE q = 1 -> row.Q1 [] q = 2 -> row.Q2 [] q = 3 -> row.Q3 [] q = 4 -> row.Q4
QuarterMonths(q) == (3 * q - 2)..(3 * q)

\* the records of a vessel due in a quarter of a year
RecordsDueIn(v, y, q) ==
    { i \in RecordsDue(v, y) : kin[i].Due.m \in QuarterMonths(q) }

\* C11 as stated: each (vessel, year, quarter) cell is the number of records
\* of the vessel due in that year and quarter, so two records of one vessel,
\* quarter and machinery location contribute 2.  (Stated for the record sets
\* in which every record has a machinery location.)
C11_CellCountsRecords ==
    (ktab.status = "ok" /\ AllLocated) =>
    \A k \in DOMAIN ktab.table : \A q \in 1..4 :
        CellOf(ktab.table[k], q) = Cardinality(RecordsDueIn(k[1], k[2], q))

\* C11 amended: each cell is the number of distinct machinery locations of
\* the vessel's records due in that year and quarter; records without a
\* location count for nothing, and records of one vessel, quarter and
\* location contribute 1 together, so the cell is below the record count
\* exactly when a location repeats or is missing.
C11_CellCountsLocations ==
    ktab.status = "ok" =>
    \A k \in DOMAIN ktab.table : \A q \in 1..4 :
        LET recs == RecordsDueIn(k[1], k[2], q)
            cell == CellOf(ktab.table[k], q)
        IN  /\ cell = Cardinality(LocationsDue(k[1], k[2], QuarterMonths(q)))
            /\ cell <= Cardinality(recs)
            /\ (cell < Cardinality(recs)) <=>
                  \E i \in recs :
                      \/ IsNa(kin[i].Machinery)
                      \/ \E j \in recs \ {i} : kin[j].Machinery = kin[i].Machinery

\* two records of one vessel, one quarter and one location: the cell is 1
C11_Witness ==
    /\ ktab.status = "ok"
    /\ Len(kin) = 2
    /\ kin[1] = [label |-> 0, Vessel |-> V_X, Due |-> Date(2025, 2), Machinery |-> L_ME]
    /\ kin[2] = [label |-> 1, Vessel |-> V_X, Due |-> Date(2025, 2), Machinery |-> L_ME]
    /\ ktab.table[<<V_X, 2025>>].Q1 = 1

-----------------------------------------------------------------------------
(* Properties of the session: filter, then KPI table (SpecAnalysis) *)

\* the last filter call was made on the store as it is now
CallOnStore ==
    /\ out.status # "none"
    /\ out = filter_major_machinery(df, out.args)

Undated(i) == kin[i].Due = NaT

\* the scenario: min_hours = 4000, min_months = 30, no optional filter
ScenarioArgs ==
    [min_hours |-> 4000, min_months |-> 30, year_filter |-> NoFilter,
     vessel_filter |-> NoFilter, machinery_filter |-> NoFilter,
     job_action_filter |-> NoFilter]

\* the filtered set of the scenario is {A, C} and the table has the single
\* row X/2025 with Q1 = 1, Q2 = Q3 = Q4 = 0, total = 1
ScenarioOutcome ==
    (df = load_data(ScenarioFile) /\ CallOnStore /\ out.args = ScenarioArgs) =>
        /\ out.status = "ok"
        /\ [i \in 1..Len(out.rows) |-> out.rows[i].label] = <<0, 2>>
        /\ kin = out.rows
        /\ ktab.status = "ok"
        /\ DOMAIN ktab.table = { <<V_X, 2025>> }
        /\ ktab.table[<<V_X, 2025>>] =
              [Q1 |-> 1, Q2 |-> 0, Q3 |-> 0, Q4 |-> 0, YearTotal |-> 1]

\* the undated records of the displayed frame are in no bucket, and every
\* row, cell and total of the table comes from dated records alone
UndatedCountNowhere ==
    ktab.status = "ok" =>
        /\ \A i \in 1..Len(kin) : Undated(i) =>
              \A k \in DOMAIN ktab.buckets : kin[i].label \notin ktab.buckets[k]
        /\ \A k \in DOMAIN ktab.table :
              /\ RecordsDue(k[1], k[2]) # {}
              /\ ktab.table[k].YearTotal =
                    Cardinality(LocationsDue(k[1], k[2], 1..12))
              /\ \A q \in 1..4 :
                    CellOf(ktab.table[k], q) =
                        Cardinality(LocationsDue(k[1], k[2], QuarterMonths(q)))

\* for the calls selected by P, also under a year filter: a gate-passing
\* record without a due date that the vessel filter admits is in the result
UndatedRetained(P) ==
    (CallOnStore /\ P) =>
    \A i \in 1..Len(df.rows) :
        (PassesGate(df.rows[i]) /\ df.rows[i].Due = NaT
            /\ Admits(out.args.vessel_filter, df.rows[i].Vessel))
        => InResult(df.rows[i])

\* C12: a gate-passing record without a due date is retained in the filtered
\* set, also under a year filter, yet contributes to no cell, no year total
\* and no (vessel, year) row of the table; in the scenario the filtered set
\* is {A, C} and the table is the single row X/2025 (1, 0, 0, 0, total 1).
C12_UndatedRetained ==
    /\ UndatedRetained(TRUE)
    /\ UndatedCountNowhere
    /\ ScenarioOutcome

\* The statement of C12 for the calls that return a frame.
UndatedRetainedWhenReturned ==
    /\ UndatedRetained(out.status = "ok")
    /\ UndatedCountNowhere
    /\ ScenarioOutcome

\* the scenario has been filtered and displayed
ScenarioShown ==
    /\ df = load_data(ScenarioFile)
    /\ out.status = "ok"
    /\ out.args = ScenarioArgs
    /\ Len(kin) = 2
    /\ Undated(2)
    /\ ktab.status = "ok"

\* main, lines 211-212: the analysis view is displayed when combined_data
\* and filtered_data are both set
AnalysisShown == df.loaded /\ ktab.status # "none"

\* the stored filtered_data is what the filter returns on the stored
\* combined_data, for some arguments of the widgets
FilteredFromStore ==
    \E a \in AnalysisArgs :
        /\ filter_major_machinery(df, a).status = "ok"
        /\ filter_major_machinery(df, a).rows = kin

\* C23: whenever the analysis view is displayed, the stored filtered_data is
\* the result of filter_major_machinery on the combined_data stored now; a
\* new file is not shown with the analysis of the previous file.
C23_SessionConsistent == AnalysisShown => FilteredFromStore

\* The statement of C23 for the states in which the last filter call was
\* made on the combined_data stored now and returned a frame.
ConsistentWhenApplied ==
    (CallOnStore /\ out.status = "ok") => (kin = out.rows /\ FilteredFromStore)

-----------------------------------------------------------------------------
(* Properties of the uploads, checked under SpecUpload *)

\* the records of a frame: its rows without their labels
Records(rows) ==
    [i \in 1..Len(rows) |->
        [c \in (DOMAIN rows[i]) \ {"label"} |-> rows[i][c]]]

\* the records of the processors of data_processors, file after file
ProcessorRecords ==
    Records(ConcatRows([i \in 1..Len(procs) |-> procs[i].df]))

\* C24: after any sequence of single-file and multi-file uploads, also
\* failed ones, combined_data holds exactly the records of the processors
\* in data_processors, in within-file order (so its record count is the sum
\* of theirs); it never describes files that data_processors does not hold.
C24_UploadConsistent ==
    /\ Records(df.rows) = ProcessorRecords
    /\ df.loaded <=> procs # <<>>

\* An upload that assigns combined_data leaves the two consistent: the
\* inconsistent states are those a failed multi-file upload leaves.
ConsistentWhenAssigned == [][df' # df => C24_UploadConsistent']_vars

-----------------------------------------------------------------------------
(* Properties of get_frequency_category, checked under SpecParser *)

CategoryCalled == "category" \in pcalled

\* the level the statement gives an interval n against its three thresholds
StatedLevel(n, very_high, high, medium) ==
    IF n >= very_high THEN "VeryHigh"
    ELSE IF n >= high THEN "High"
    ELSE IF n >= medium THEN "Medium"
    ELSE "Low"

\* the stated levels a returned label can stand for: the labels name how
\* often the job recurs, the levels how long the interval is
LevelsOf(label) ==
    CASE label = "Low Frequency (Major)" -> {"VeryHigh", "High"}
      [] label = "Medium Frequency"      -> {"Medium"}
      [] label = "High Frequency"        -> {"Low"}
      [] OTHER                           -> {label}

\* the label the code gives an interval of h hours
LabelOfHours(h) ==
    IF h < 1000 THEN "High Frequency"
    ELSE IF h < 4000 THEN "Medium Frequency"
    ELSE "Low Frequency (Major)"

UnknownIffNoInterval == (pcat = "Unknown") <=> NoInterval(ptext)

\* C13 as stated: an hour interval is VeryHigh / High / Medium / Low for
\* >= 8000 / >= 4000 / >= 2000 / fewer hours, a month interval for >= 60 /
\* >= 30 / >= 12 / fewer months, and the result is Unknown exactly when the
\* text has no parseable interval.
C13_StatedThresholds ==
    CategoryCalled =>
        /\ UnknownIffNoInterval
        /\ \A n \in Nums \cup CategoryNums :
              /\ IsHourText(ptext, n) =>
                    StatedLevel(n, 8000, 4000, 2000) \in LevelsOf(pcat)
              /\ IsMonthText(ptext, n) =>
                    StatedLevel(n, 60, 30, 12) \in LevelsOf(pcat)

\* C13 amended: the category is decided by the interval in hours alone.  An
\* hour interval of fewer than 1000 hours is "High Frequency", of fewer than
\* 4000 hours "Medium Frequency", else "Low Frequency (Major)"; a month
\* interval of n months is judged as n * 720 hours by the same two
\* thresholds; the result is "Unknown" exactly when the text has no
\* parseable interval.
C13_CategoryByHours ==
    CategoryCalled =>
        /\ UnknownIffNoInterval
        /\ \A n \in Nums \cup CategoryNums :
              /\ IsHourText(ptext, n) => pcat = LabelOfHours(n)
              /\ IsMonthText(ptext, n) => pcat = LabelOfHours(n * 720)

\* "2 months" is 1440 hours: "Medium Frequency"
C13_Witness ==
    /\ CategoryCalled
    /\ ptext = Interval(2, 1, W_months)
    /\ pcat = "Medium Frequency"

-----------------------------------------------------------------------------
(* Properties of get_machinery_breakdown, checked under SpecBreakdown *)

\* the records of the store at location l, by position
RecordsAt(l) == { i \in 1..Len(df.rows) : df.rows[i].Machinery = l }

\* the records at l that are the first of l to show their frequency
FirstSeen(l) ==
    { i \in RecordsAt(l) :
        /\ ~IsNa(df.rows[i].Frequency)
        /\ \A j \in RecordsAt(l) :
              j < i => df.rows[j].Frequency # df.rows[i].Frequency }

\* the n-th of them in record order
NthFirstSeen(l, n) ==
    CHOOSE i \in FirstSeen(l) :
        Cardinality({ j \in FirstSeen(l) : j < i }) = n - 1

\* the entries the statement expects for l
SampleEntries(l) ==
    [n \in 1..(IF Cardinality(FirstSeen(l)) < 3
               THEN Cardinality(FirstSeen(l)) ELSE 3) |->
        df.rows[NthFirstSeen(l, n)].Frequency]

\* C14: for every machinery location the frequency sample holds at most 3
\* entries, all distinct, and they are the first distinct non-absent
\* frequency strings of the location in first-seen record order (not
\* sorted); a location with no frequency at all shows "Unknown".
C14_FrequencySample ==
    btab.status = "ok" =>
        /\ { btab.rows[j].Location : j \in 1..Len(btab.rows) }
              = { df.rows[i].Machinery : i \in 1..Len(df.rows) } \ {NaN}
        /\ \A j \in 1..Len(btab.rows) :
              LET l == btab.rows[j].Location
                  entries == SampleEntries(l)
              IN  /\ Len(entries) <= 3
                  /\ \A a, b \in 1..Len(entries) :
                        a # b => entries[a] # entries[b]
                  /\ btab.rows[j].Frequencies =
                        IF FirstSeen(l) = {} THEN T_Unknown ELSE Join(entries)

\* four distinct frequencies at one location, not in sorted order: the
\* sample is the first three as they came
C14_Witness ==
    /\ btab.status = "ok"
    /\ Len(df.rows) = 4
    /\ [i \in 1..4 |-> df.rows[i].Frequency] = <<F_30m, F_4000h, F_2y, F_8000h>>
    /\ Len(btab.rows) = 1
    /\ btab.rows[1].Frequencies = Join(<<F_30m, F_4000h, F_2y>>)

\* the sum of the Total Jobs column
RECURSIVE SumTotalJobs(_)
SumTotalJobs(rows) ==
    IF rows = <<>> THEN 0 ELSE rows[1].TotalJobs + SumTotalJobs(Tail(rows))

\* rows are ordered by Total Jobs, descending
OrderedByTotalJobs ==
    \A i, j \in 1..Len(btab.rows) :
        i < j => btab.rows[i].TotalJobs >= btab.rows[j].TotalJobs

\* Pending Jobs is the number of records of the location with status "Pending"
PendingCountsRecords ==
    \A j \in 1..Len(btab.rows) :
        btab.rows[j].PendingJobs =
            Cardinality({ i \in RecordsAt(btab.rows[j].Location) :
                            df.rows[i].JobStatus = T_Pending })

\* C25: for every machinery location Total Jobs is the number of records at
\* the location and Pending Jobs the number of those with job status
\* "Pending", so Pending Jobs <= Total Jobs (also when records have an absent
\* job code); the Total Jobs of all locations sum to the number of records
\* with a machinery location; rows are ordered by Total Jobs descending.
C25_BreakdownCounts ==
    btab.status = "ok" =>
        /\ \A j \in 1..Len(btab.rows) :
              /\ btab.rows[j].TotalJobs =
                    Cardinality(RecordsAt(btab.rows[j].Location))
              /\ btab.rows[j].PendingJobs <= btab.rows[j].TotalJobs
        /\ PendingCountsRecords
        /\ SumTotalJobs(btab.rows) =
              Cardinality({ i \in 1..Len(df.rows) : ~IsNa(df.rows[i].Machinery) })
        /\ OrderedByTotalJobs

\* What the table does hold: Total Jobs is the number of records of the
\* location that have a job code, Pending Jobs counts all its pending
\* records, and the rows are ordered by Total Jobs.
BreakdownCountsJobCodes ==
    btab.status = "ok" =>
        /\ \A j \in 1..Len(btab.rows) :
              btab.rows[j].TotalJobs =
                  Cardinality({ i \in RecordsAt(btab.rows[j].Location) :
                                  ~IsNa(df.rows[i].JobCode) })
        /\ PendingCountsRecords
        /\ OrderedByTotalJobs

\* Without an absent job code in the store the counts are as stated.
CountsWhenJobCodesPresent ==
    (\A i \in 1..Len(df.rows) : ~IsNa(df.rows[i].JobCode)) => C25_BreakdownCounts

-----------------------------------------------------------------------------
(* Properties of the parser on decimal, negative and two-interval texts, *)
(* checked under SpecParser                                               *)

\* C18: decimal intervals are accepted.  For "4000.5 hours" parse_to_hours
\* returns the decimal value 4000.5, whose integer part is 4000, and not
\* the fractional digits 5 on their own.
C18_DecimalAccepted ==
    (HoursCalled /\ ptext = T_decimal) =>
        /\ phours # None
        /\ phours >= 4000
        /\ phours < 4001

\* C19: a negative interval is not matched.  parse_to_hours and
\* parse_to_months of "-5 hours" return absent.
C19_NegativeAbsent ==
    ptext = T_negative =>
        /\ HoursCalled => phours = None
        /\ MonthsCalled => pmonths = None

BothIntervals == ptext \in {T_hours_months, T_months_hours}

=============================================================================
